---- MODULE Spec2Model ----
(***************************************************************************)
(* melody-magnet: the synchronization ledger (SQLiteRegistry), the library *)
(* sink, the session store and the orchestrator sync_favourites, driven by *)
(* the cron closure of main.  One invocation runs at a time; the model     *)
(* follows it statement by statement, so that a kill of the process or a   *)
(* panic (an unwrap/expect on an Err) can fall between any two calls.      *)
(***************************************************************************)
EXTENDS Integers, Sequences, FiniteSets, TLC

\* ------------------------------------------------------------------ bounds
NumAlbums == 2
MaxFavs == 2
MaxTracks == 2
MaxCount == 2
MaxFails == 4
\* the favourites of the remote and the page sizes of the page-by-page
\* specification of get_favorite_albums
MaxRemote == 4
MaxPage == 3

\* download_track / download_album_cover: `for _ in 1..5` is four attempts
Attempts == 4

NONE == "none"

AlbumIds == 1..NumAlbums
\* what the library path of an album is derived from (artist / year title)
Titles == {"a", "b"}

\* backend::Album, reduced to the fields the orchestrator and registry read:
\* id, the path-forming naming (title), and whether cover_url is Some
AlbumValues == [id : AlbumIds, title : Titles, cover : BOOLEAN]

\* enum SynchronizedState, in the order of its variants
Rank(s) == CASE s = "Requested" -> 1 [] s = "Processing" -> 2 [] s = "Synchronized" -> 3

\* serde_json::to_string(&album): the JSON text, here the field values in
\* declaration order
Serialize(album) == <<album.id, album.title, album.cover>>

\* serde_json::from_str::<Album>
Deserialize(details) == [id |-> details[1], title |-> details[2], cover |-> details[3]]

\* MappedForPathName: artist.path_name() / album.path_name()
path_name(album) == album.title

\* ---------------------------------------------------------------- registry
\* The table album_state is a set of rows; the PRIMARY KEY on id is enforced
\* by the INSERT, not by the representation.
RowsOf(l, id) == {r \in l : r.id = id}

HasRecord(l, id) == RowsOf(l, id) # {}

Ids(l) == {r.id : r \in l}

StatesOf(l, id) == {r.state : r \in RowsOf(l, id)}

NewRow(album) ==
    [id |-> album.id, state |-> "Requested", path |-> path_name(album),
     details |-> Serialize(album)]

\* INSERT without the PRIMARY KEY check (a table declared without the key)
request_favourite_album_nokey(l, album, fault) ==
    CASE fault -> [ok |-> FALSE, why |-> "io", ledger |-> l]
      [] ~album.cover -> [ok |-> FALSE, why |-> "notnull", ledger |-> l]
      [] OTHER -> [ok |-> TRUE, why |-> "", ledger |-> l \cup {NewRow(album)}]

\* INSERT OR REPLACE: the existing row is overwritten by a Requested one
request_favourite_album_replace(l, album, fault) ==
    CASE fault -> [ok |-> FALSE, why |-> "io", ledger |-> l]
      [] ~album.cover -> [ok |-> FALSE, why |-> "notnull", ledger |-> l]
      [] OTHER -> [ok |-> TRUE, why |-> "",
                   ledger |-> (l \ RowsOf(l, album.id)) \cup {NewRow(album)}]

\* INSERT INTO album_state ...: fails on a storage fault, on cover_url NULL
\* (the column is NOT NULL and get_cover_url() is None) and on an id that is
\* already there (PRIMARY KEY); otherwise adds the Requested row.
request_favourite_album(l, album, fault) ==
    CASE fault -> [ok |-> FALSE, why |-> "io", ledger |-> l]
      [] ~album.cover -> [ok |-> FALSE, why |-> "notnull", ledger |-> l]
      [] HasRecord(l, album.id) -> [ok |-> FALSE, why |-> "pk", ledger |-> l]
      [] OTHER -> [ok |-> TRUE, why |-> "", ledger |-> l \cup {NewRow(album)}]

\* SELECT state ... WHERE id=?1, any error turned into false by unwrap_or
is_album_exists(l, album, fault) == IF fault THEN FALSE ELSE HasRecord(l, album.id)

UpdateState(l, id, st) ==
    {IF r.id = id THEN [r EXCEPT !.state = st] ELSE r : r \in l}

mark_album_as_synchronized_requested(l, album) == UpdateState(l, album.id, "Requested")

\* UPDATE album_state SET state = 'Synchronized' ... WHERE id = ?3
mark_album_as_synchronized(l, album) == UpdateState(l, album.id, "Synchronized")

mark_album_as_processing_all(l, album) == {[r EXCEPT !.state = "Processing"] : r \in l}

\* UPDATE album_state SET state = 'Processing' ... WHERE id = ?3
mark_album_as_processing(l, album) == UpdateState(l, album.id, "Processing")

\* SELECT count(*) without the WHERE
count_by_status_all(l, state, fault) ==
    IF fault THEN 0 ELSE Cardinality(l)

\* SELECT count(*) ... WHERE state=?1, any error turned into 0 by unwrap_or
count_by_status(l, state, fault) ==
    IF fault THEN 0 ELSE Cardinality({r \in l : r.state = state})

\* get_stats with count_total taken from a count of all rows
get_stats_rows(l, f) ==
    [album_requested |-> count_by_status(l, "Requested", f[1]),
     album_processing |-> count_by_status(l, "Processing", f[2]),
     album_synchronized |-> count_by_status(l, "Synchronized", f[3]),
     count_total |-> Cardinality(l)]

\* get_stats: f is the triple of storage faults of the three counts
get_stats(l, f) ==
    LET album_requested == count_by_status(l, "Requested", f[1])
        album_processing == count_by_status(l, "Processing", f[2])
        album_synchronized == count_by_status(l, "Synchronized", f[3])
    IN [album_requested |-> album_requested,
        album_processing |-> album_processing,
        album_synchronized |-> album_synchronized,
        count_total |-> album_requested + album_processing + album_synchronized]

\* the claim without the transition to Processing
get_next_unmarked(l, qfault, ufault, dfault) ==
    LET cands == IF qfault THEN {} ELSE {r \in l : r.state = "Requested"}
    IN IF cands = {}
       THEN {[ret |-> "none", why |-> "", album |-> NONE, ledger |-> l]}
       ELSE {[ret |-> "some", why |-> "", album |-> Deserialize(r.details), ledger |-> l]
             : r \in cands}

\* the claim selecting among all rows, not only the Requested ones
get_next_anystate(l, qfault, ufault, dfault) ==
    LET cands == IF qfault THEN {} ELSE l
    IN IF cands = {}
       THEN {[ret |-> "none", why |-> "", album |-> NONE, ledger |-> l]}
       ELSE {IF dfault
             THEN [ret |-> "panic", why |-> "parse", album |-> NONE, ledger |-> l]
             ELSE IF ufault
             THEN [ret |-> "panic", why |-> "io", album |-> NONE, ledger |-> l]
             ELSE [ret |-> "some", why |-> "", album |-> Deserialize(r.details),
                   ledger |-> mark_album_as_processing(l, Deserialize(r.details))]
             : r \in cands}

\* get_next_to_synchronize_and_mark_as_processing: the possible outcomes.
\* SELECT details ... WHERE state = 'Requested' LIMIT 1 has no ORDER BY, so
\* any Requested row may be the one returned; an error of the query (qfault)
\* becomes None through unwrap_or(None); a details text that is read back
\* and is no Album (dfault) hits the unwrap of serde_json::from_str inside
\* the row closure and panics; an error of the UPDATE (ufault) hits the
\* expect and panics; either panic leaves the row Requested.
get_next_to_synchronize_and_mark_as_processing(l, qfault, ufault, dfault) ==
    LET cands == IF qfault THEN {} ELSE {r \in l : r.state = "Requested"}
    IN IF cands = {}
       THEN {[ret |-> "none", why |-> "", album |-> NONE, ledger |-> l]}
       ELSE {IF dfault
             THEN [ret |-> "panic", why |-> "parse", album |-> NONE, ledger |-> l]
             ELSE IF ufault
             THEN [ret |-> "panic", why |-> "io", album |-> NONE, ledger |-> l]
             ELSE [ret |-> "some", why |-> "", album |-> Deserialize(r.details),
                   ledger |-> mark_album_as_processing(l, Deserialize(r.details))]
             : r \in cands}

\* the faults one claim can meet: the first that occurs ends it, so one
\* at a time covers every outcome
ClaimFaults == {<<FALSE, FALSE, FALSE>>, <<TRUE, FALSE, FALSE>>,
                <<FALSE, TRUE, FALSE>>, <<FALSE, FALSE, TRUE>>}

\* ----------------------------------------------------------------- library
\* Library::is_album_exists: the album directory exists
library_is_album_exists(d, album) == path_name(album) \in d

\* Library::save_album_cover / save_track: create_dir_all, then the writes.
\* how = "ok", "mkdir" (create_dir_all failed) or "write" (a later write
\* failed, the directory is there).
library_save(d, album, how) ==
    [ok |-> how = "ok",
     disk |-> IF how = "mkdir" THEN d ELSE d \cup {path_name(album)}]

SaveOutcomes == {"ok", "mkdir", "write"}

\* ----------------------------------------------------------------- backend
\* the retry loop of download_track and download_album_cover:
\* for _ in first..last { match request { Ok(b) => return Ok(b), Err(_) => info!(..) } }
\* and Err(BackendError::RequestError) after it.  k requests fail before one
\* would succeed; `attempts` counts the requests made.
RECURSIVE retry(_, _, _)
retry(i, last, k) ==
    IF i >= last THEN [ret |-> "err", attempts |-> i - 1]
    ELSE IF i > k THEN [ret |-> "ok", attempts |-> i]
    ELSE retry(i + 1, last, k)

\* for _ in 1..=5
download_track_inclusive(k) == retry(1, 6, k)

\* for _ in 1..5
download_track(k) == retry(1, 5, k)

\* what the remote answers to a request that fails: 401 Unauthorized (the
\* authorization has expired) or anything else
Causes == {"unauthorized", "other"}

\* TidalSession::get_favorite_albums: StatusCode::UNAUTHORIZED gives
\* AuthorizationError, any other failure RequestError
session_error(cause) ==
    IF cause = "unauthorized" THEN "AuthorizationError" ELSE "RequestError"

\* Tidal::get_favorite_albums: if v.is_err() { return Err(BackendError::RequestError) }
backend_error(e) == "RequestError"

\* a get_favorite_albums that returns what the pages before the failed one gave
favourites_after_error_partial(partial, e) == [ok |-> TRUE, ret |-> "ok", n |-> partial]

\* Tidal::get_favorite_albums when a page fetch fails with e after `partial`
\* albums were pushed: the return drops `albums`
favourites_after_error(partial, e) == [ok |-> FALSE, ret |-> backend_error(e), n |-> 0]

\* `for track in tracks` after a download_track that returned Err: the
\* Result is dropped (let _ = ..) and the loop goes on with the next track
after_track_error_break(n) == 0

after_track_error(n) == n - 1

\* Tidal::download_album_cover with an underlying fetch that fails k
\* consecutive times and then succeeds: Ok iff one of the Attempts tries
\* succeeds
download_ok(k) == k < Attempts

\* ------------------------------------------------------ favourites pages
\* const FAVOURITE_ITEMS_PER_PAGE: usize = 100
FAVOURITE_ITEMS_PER_PAGE == 100

Min(a, b) == IF a < b THEN a ELSE b

\* Pagination::init(limit)
Pagination_init(limit) == [limit |-> limit, offset |-> 0]

\* the item the Pagination iterator yields after `page`: the offset
\* advances by the limit, and the iterator does not end by itself
Pagination_next(page) == [page EXCEPT !.offset = @ + page.limit]

\* session.get_favorite_albums(limit, offset) answered by a remote whose
\* favourites are `remote` (per position, the adSupportedStreamReady of the
\* album): the positions of the at most `limit` favourites after `offset`
session_get_favorite_albums(remote, limit, offset) ==
    [j \in 1..Min(limit, IF offset < Len(remote) THEN Len(remote) - offset ELSE 0)
        |-> offset + j]

\* for item in items with every item pushed
push_albums_all(albums, items, remote) == albums \o items

\* for item in items { if item["item"]["adSupportedStreamReady"] is true { albums.push(..) } }
push_albums(albums, items, remote) ==
    albums \o SelectSeq(items, LAMBDA j : remote[j])

\* no call of get_favorite_albums is being followed
NoPages == [remote |-> <<>>, page |-> Pagination_init(0), fetches |-> 0,
            albums |-> <<>>, ret |-> "", failat |-> 0]

\* the ids whose row is in Processing
Processing(l) == {r.id : r \in {q \in l : q.state = "Processing"}}

\* ------------------------------------------------------------------- state
VARIABLES
    ledger,      \* the album_state table of library.db
    disk,        \* the album directories that exist under the library path
    store,       \* tidal_session.json: NONE or the serialized session
    lock,        \* the Mutex of main: "free", "held" or "poisoned"
    active,      \* the number of sync_favourites calls in progress
    pc,          \* the statement the running invocation is at, or "idle"
    session,     \* tidal_backend of the running invocation
    cur,         \* `album` of the while loop
    tracks,      \* the tracks of `tracks` still to iterate
    todo,        \* how many albums of `favourite_albums` are still to iterate
    fav,         \* `album` of the for loop over `favourite_albums`
    hist,        \* per album id: INSERTs done, claims returned, tracklist fetches
    snap,        \* per album id: the album passed to the INSERT that made its row
    skipped,     \* album ids the library reported as existing when claimed
    downloads,   \* album ids with a tracklist, cover or track request made
    drained,     \* this invocation's claim has returned None
    discovered,  \* album ids this invocation inserted
    call,        \* the registry or download call the last step made and its
                 \* result; for a download, the failures k its requests met
                 \* and the requests it made; for a remote call that
                 \* failed, what the remote answered (cause)
    stats,       \* `stats` of print_stats, while it is in scope
    run,         \* what the running invocation has done so far
    panic,       \* where the last invocation panicked, if it did
    pg           \* a call of Tidal::get_favorite_albums taken page by page

core == <<ledger, disk, store, lock, active, pc, session, cur, tracks, todo, fav,
          hist, snap, skipped, downloads, drained, discovered, call, stats,
          run, panic>>
persist == <<ledger, disk, store>>
mem == <<session, cur, tracks, todo, fav>>
past == <<hist, snap, skipped, downloads>>
vars == <<ledger, disk, store, lock, active, pc, session, cur, tracks, todo, fav,
          hist, snap, skipped, downloads, drained, discovered, call, stats,
          run, panic, pg>>

NoCall == [op |-> "", id |-> 0, requested |-> 0, ret |-> "", fault |-> FALSE, k |-> 0, attempts |-> 0, cause |-> ""]
NoPanic == [at |-> "", why |-> ""]
NoHist == [inserts |-> 0, claims |-> 0, fetches |-> 0]

\* run: the ids that were Processing when the invocation started, the calls
\* of get_favorite_albums and of refresh_token it has made, and for the
\* album its while loop claimed last the track downloads that returned Ok
\* and Err
NoRun == [stale |-> {}, fetches |-> 0, refreshes |-> 0, id |-> 0, ok |-> 0, fail |-> 0]

Inc(n) == IF n < MaxCount THEN n + 1 ELSE n

\* SQLiteRegistry::init on a new file (CREATE TABLE IF NOT EXISTS): no rows.
\* The library may hold album directories already; no session is stored.
Init ==
    /\ ledger = {}
    /\ disk \in SUBSET Titles
    /\ store = NONE
    /\ lock = "free"
    /\ active = 0
    /\ pc = "idle"
    /\ session = NONE
    /\ cur = NONE
    /\ tracks = 0
    /\ todo = 0
    /\ fav = NONE
    /\ hist = [i \in AlbumIds |-> NoHist]
    /\ snap = [i \in AlbumIds |-> NONE]
    /\ skipped = {}
    /\ downloads = {}
    /\ drained = FALSE
    /\ discovered = {}
    /\ call = NoCall
    /\ stats = NONE
    /\ run = NoRun
    /\ panic = NoPanic
    /\ pg = NoPages

\* the locals of sync_favourites go out of scope
DropLocals ==
    /\ session' = NONE
    /\ cur' = NONE
    /\ tracks' = 0
    /\ todo' = 0
    /\ fav' = NONE
    /\ drained' = FALSE
    /\ discovered' = {}
    /\ stats' = NONE
    /\ run' = NoRun

\* an unwrap/expect on an Err: the cron thread unwinds while it holds the
\* MutexGuard, which poisons the Mutex
Panic(at, why) ==
    /\ pc' = "idle"
    /\ lock' = "poisoned"
    /\ active' = active - 1
    /\ panic' = [at |-> at, why |-> why]
    /\ DropLocals
    /\ UNCHANGED pg

\* the invocation moves on to statement p
Goto(p) ==
    /\ pc' = p
    /\ UNCHANGED <<lock, active, panic, pg>>

\* a lock every trigger gets
try_lock_always(lk) == TRUE

\* Mutex::try_lock: Ok only when nobody holds the lock and it is not poisoned
try_lock(lk) == lk = "free"

\* the while loop of the drain phase comes first in sync_favourites
FirstPhase_discover == "fetch"

FirstPhase == "claim"

\* if !library.is_album_exists(&album) { ... }
AfterLibraryCheck_inverted(exists) == IF exists THEN "mark_proc" ELSE "claim"

AfterLibraryCheck(exists) == IF exists THEN "claim" ELSE "mark_proc"

\* the statement after each print_stats call
AfterStats(p) ==
    CASE p = "stats1" -> "check_lib"
      [] p = "stats2" -> "fetch"
      [] p = "stats3" -> "done"

\* ----------------------------------------------------------------- actions
\* the cron closure: match lock.try_lock() { Ok(_) => sync_favourites(), Err(_) => skip }
Trigger ==
    IF try_lock(lock)
    THEN /\ lock' = "held"
         /\ active' = active + 1
         /\ pc' = "start"
         /\ panic' = NoPanic
         /\ call' = NoCall
         /\ DropLocals
         /\ UNCHANGED <<persist, past, pg>>
    ELSE UNCHANGED vars

\* session_store.load::<Tidal>().unwrap_or_else(|| Tidal::init())
LoadSession ==
    /\ pc = "start"
    /\ call' = NoCall
    /\ UNCHANGED <<persist, past>>
    /\ IF store # NONE
       THEN /\ session' = store
            /\ Goto(FirstPhase)
            /\ run' = [NoRun EXCEPT !.stale = Processing(ledger)]
            /\ UNCHANGED <<cur, tracks, todo, fav, drained, discovered, stats>>
       ELSE \E handshake \in BOOLEAN :
              IF handshake
              THEN /\ session' = "fresh"
                   /\ Goto(FirstPhase)
                   /\ run' = [NoRun EXCEPT !.stale = Processing(ledger)]
                   /\ UNCHANGED <<cur, tracks, todo, fav, drained, discovered, stats>>
              ELSE Panic("handshake", "request")

\* while let Some(album) = registry.get_next_to_synchronize_and_mark_as_processing().expect(..)
Claim ==
    /\ pc = "claim"
    /\ UNCHANGED <<disk, store, snap, skipped, downloads>>
    /\ \E qfault, ufault, dfault \in BOOLEAN :
         /\ <<qfault, ufault, dfault>> \in ClaimFaults
         /\ \E o \in get_next_to_synchronize_and_mark_as_processing(ledger, qfault, ufault, dfault) :
           LET before == Cardinality({r \in ledger : r.state = "Requested"})
           IN /\ call' = [op |-> "claim",
                          id |-> IF o.ret = "some" THEN o.album.id ELSE 0,
                          requested |-> before, ret |-> o.ret, fault |-> qfault, k |-> 0, attempts |-> 0, cause |-> ""]
              /\ ledger' = o.ledger
              /\ CASE o.ret = "some" ->
                        /\ cur' = o.album
                        /\ hist' = [hist EXCEPT ![o.album.id].claims = Inc(@)]
                        /\ Goto("stats1")
                        /\ run' = [run EXCEPT !.id = o.album.id, !.ok = 0, !.fail = 0]
                        /\ UNCHANGED <<session, tracks, todo, fav, drained, discovered, stats>>
                   [] o.ret = "none" ->
                        /\ drained' = TRUE
                        /\ Goto("stats2")
                        /\ UNCHANGED <<session, cur, tracks, todo, fav, discovered, run, stats, hist>>
                   [] o.ret = "panic" ->
                        /\ Panic("claim", o.why)
                        /\ UNCHANGED hist

\* print_stats(&registry)
PrintStats ==
    /\ pc \in {"stats1", "stats2", "stats3"}
    /\ \E f \in [1..3 -> BOOLEAN] :
         /\ stats' = get_stats(ledger, f)
         /\ call' = [NoCall EXCEPT !.op = "get_stats", !.fault = \E i \in 1..3 : f[i]]
    /\ Goto(AfterStats(pc))
    /\ UNCHANGED <<persist, mem, past, drained, discovered, run>>

\* if !library.is_album_exists(&album)
CheckLibrary ==
    /\ pc = "check_lib"
    /\ LET exists == library_is_album_exists(disk, cur)
           next == AfterLibraryCheck(exists)
       IN /\ skipped' = IF exists THEN skipped \cup {cur.id} ELSE skipped
          /\ cur' = IF next = "claim" THEN NONE ELSE cur
          /\ Goto(next)
    /\ call' = NoCall
    /\ stats' = NONE
    /\ UNCHANGED <<persist, session, tracks, todo, fav, hist, snap, downloads,
                   drained, discovered, run>>

\* registry.mark_album_as_processing(&album).unwrap()
MarkProcessing ==
    /\ pc = "mark_proc"
    /\ UNCHANGED <<disk, store, past>>
    /\ \E fault \in BOOLEAN :
         /\ call' = [op |-> "mark_processing", id |-> cur.id, requested |-> 0,
                     ret |-> "", fault |-> fault, k |-> 0, attempts |-> 0, cause |-> ""]
         /\ IF fault
            THEN /\ Panic("mark_processing", "io")
                 /\ UNCHANGED ledger
            ELSE /\ ledger' = mark_album_as_processing(ledger, cur)
                 /\ Goto("tracks")
                 /\ UNCHANGED <<mem, drained, discovered, run, stats>>

\* let tracks = tidal_backend.get_album_tracks(&album).unwrap()
GetTracks ==
    /\ pc = "tracks"
    /\ call' = NoCall
    /\ hist' = [hist EXCEPT ![cur.id].fetches = Inc(@)]
    /\ downloads' = downloads \cup {cur.id}
    /\ UNCHANGED <<persist, snap, skipped>>
    /\ \E ok \in BOOLEAN :
         IF ok
         THEN /\ \E n \in 0..MaxTracks : tracks' = n
              /\ Goto("cover")
              /\ UNCHANGED <<session, cur, todo, fav, drained, discovered, run, stats>>
         ELSE Panic("tracks", "request")

\* the cover: download_album_cover(&album).unwrap(), save_album_cover(..).unwrap()
Cover ==
    /\ pc = "cover"
    /\ call' = NoCall
    /\ UNCHANGED <<ledger, store, hist, snap, skipped>>
    /\ IF cur.cover
       THEN /\ downloads' = downloads \cup {cur.id}
            /\ \E k \in 0..MaxFails, how \in SaveOutcomes :
                 IF ~download_ok(k)
                 THEN /\ Panic("cover", "request")
                      /\ UNCHANGED disk
                 ELSE LET s == library_save(disk, cur, how)
                      IN /\ disk' = s.disk
                         /\ IF s.ok
                            THEN /\ Goto("track")
                                 /\ UNCHANGED <<mem, drained, discovered, run, stats>>
                            ELSE Panic("save_cover", how)
       ELSE /\ Goto("track")
            /\ UNCHANGED <<disk, downloads, mem, drained, discovered, run, stats>>

\* one iteration of `for track in tracks`, up to the closure of and_then:
\* download_track, and on Ok library.save_track (an Err of it is only logged)
TrackStep ==
    /\ pc = "track"
    /\ tracks > 0
    /\ downloads' = downloads \cup {cur.id}
    /\ UNCHANGED <<ledger, store, hist, snap, skipped, session, cur, todo, fav,
                   drained, discovered, stats>>
    /\ \E k \in 0..MaxFails :
        \E how \in IF download_track(k).ret = "ok" THEN SaveOutcomes ELSE {"ok"},
           cause \in IF download_track(k).ret = "ok" THEN {""} ELSE Causes :
         LET d == download_track(k)
         IN /\ call' = [NoCall EXCEPT !.op = "download_track", !.id = cur.id,
                                      !.ret = d.ret, !.k = k, !.attempts = d.attempts,
                                      !.cause = cause]
            /\ IF d.ret = "ok"
               THEN /\ disk' = library_save(disk, cur, how).disk
                    /\ run' = [run EXCEPT !.ok = Inc(@)]
                    /\ Goto("mark_sync")
                    /\ UNCHANGED tracks
               ELSE /\ tracks' = after_track_error(tracks)
                    /\ run' = [run EXCEPT !.fail = Inc(@)]
                    /\ Goto("track")
                    /\ UNCHANGED disk

\* registry.mark_album_as_synchronized(&album).unwrap(), inside the closure
MarkSynchronized ==
    /\ pc = "mark_sync"
    /\ UNCHANGED <<disk, store, past>>
    /\ \E fault \in BOOLEAN :
         /\ call' = [op |-> "mark_synchronized", id |-> cur.id, requested |-> 0,
                     ret |-> "", fault |-> fault, k |-> 0, attempts |-> 0, cause |-> ""]
         /\ IF fault
            THEN /\ Panic("mark_synchronized", "io")
                 /\ UNCHANGED ledger
            ELSE /\ ledger' = mark_album_as_synchronized(ledger, cur)
                 /\ tracks' = tracks - 1
                 /\ Goto("track")
                 /\ UNCHANGED <<session, cur, todo, fav, drained, discovered, run, stats>>

\* the for loop is over: back to the head of the while loop
EndAlbum ==
    /\ pc = "track"
    /\ tracks = 0
    /\ cur' = NONE
    /\ call' = NoCall
    /\ Goto("claim")
    /\ UNCHANGED <<persist, session, tracks, todo, fav, past, drained, discovered, run, stats>>

\* match tidal_backend.get_favorite_albums(): Err, or Ok with a list of at
\* most MaxFavs albums.  Only the for loop reads the list, one album after
\* the other, so the model keeps its length and draws each album when the
\* loop reaches it; an id may come twice (offset pagination over favourites
\* that change while they are listed).  When a page fetch fails, n albums
\* had been gathered from the pages before it.
FetchFavourites ==
    /\ pc = "fetch"
    /\ stats' = NONE
    /\ run' = [run EXCEPT !.fetches = Inc(@), !.id = 0, !.ok = 0, !.fail = 0]
    /\ UNCHANGED <<persist, session, cur, tracks, fav, past, drained, discovered>>
    /\ \E ok \in BOOLEAN, n \in 0..MaxFavs, cause \in Causes :
         LET r == IF ok THEN [ok |-> TRUE, ret |-> "ok", n |-> n]
                  ELSE favourites_after_error(n, session_error(cause))
         IN /\ call' = [NoCall EXCEPT !.op = "get_favorite_albums", !.ret = r.ret,
                                      !.cause = IF ok THEN "" ELSE cause]
            /\ todo' = r.n
            /\ Goto(IF r.ok THEN "discover" ELSE "refresh")

\* for album in favourite_albums { if !&registry.is_album_exists(&album).expect(..)
DiscoverCheck ==
    /\ pc = "discover"
    /\ todo > 0
    /\ todo' = todo - 1
    /\ UNCHANGED <<persist, session, cur, tracks, past, drained, discovered, run, stats>>
    /\ \E album \in AlbumValues, fault \in BOOLEAN :
         LET exists == is_album_exists(ledger, album, fault)
         IN /\ call' = [op |-> "is_album_exists", id |-> album.id, requested |-> 0,
                        ret |-> IF exists THEN "true" ELSE "false", fault |-> fault, k |-> 0, attempts |-> 0, cause |-> ""]
            /\ IF exists
               THEN /\ fav' = NONE
                    /\ Goto("discover")
               ELSE /\ fav' = album
                    /\ Goto("request")

\* registry.request_favourite_album(&album).unwrap()
DiscoverRequest ==
    /\ pc = "request"
    /\ UNCHANGED <<disk, store, skipped, downloads>>
    /\ \E fault \in BOOLEAN :
         LET r == request_favourite_album(ledger, fav, fault)
         IN /\ call' = [op |-> "request", id |-> fav.id, requested |-> 0,
                        ret |-> r.why, fault |-> fault, k |-> 0, attempts |-> 0, cause |-> ""]
            /\ ledger' = r.ledger
            /\ IF r.ok
               THEN /\ hist' = [hist EXCEPT ![fav.id].inserts = Inc(@)]
                    /\ snap' = [snap EXCEPT ![fav.id] = fav]
                    /\ discovered' = discovered \cup {fav.id}
                    /\ fav' = NONE
                    /\ Goto("discover")
                    /\ UNCHANGED <<session, cur, tracks, todo, drained, stats, run>>
               ELSE /\ Panic("request", r.why)
                    /\ UNCHANGED <<hist, snap>>

\* the for loop over the favourites is over
DiscoverEnd ==
    /\ pc = "discover"
    /\ todo = 0
    /\ call' = NoCall
    /\ Goto("stats3")
    /\ UNCHANGED <<persist, mem, past, drained, discovered, run, stats>>

\* tidal_backend.refresh_token().unwrap()
Refresh ==
    /\ pc = "refresh"
    /\ call' = NoCall
    /\ UNCHANGED <<persist, past>>
    /\ \E ok \in BOOLEAN :
         IF ok
         THEN /\ run' = [run EXCEPT !.refreshes = Inc(@)]
              /\ session' = "refreshed"
              /\ Goto("save")
              /\ UNCHANGED <<cur, tracks, todo, fav, drained, discovered, stats>>
         ELSE Panic("refresh", "request")

\* session_store.save(&tidal_backend): remove_file, File::create(..).unwrap(),
\* write_all(..).unwrap()
SaveSession ==
    /\ pc = "save"
    /\ call' = NoCall
    /\ UNCHANGED <<ledger, disk, past>>
    /\ \E ok \in BOOLEAN :
         IF ok
         THEN /\ store' = session
              /\ Goto("done")
              /\ UNCHANGED <<mem, drained, discovered, run, stats>>
         ELSE /\ store' = NONE
              /\ Panic("save", "io")

\* sync_favourites returns; the MutexGuard temporary of the match is dropped
Finish ==
    /\ pc = "done"
    /\ pc' = "idle"
    /\ lock' = "free"
    /\ active' = active - 1
    /\ call' = NoCall
    /\ DropLocals
    /\ UNCHANGED <<persist, past, panic, pg>>

\* the process is killed at any point and started again: a new Mutex, no
\* invocation, and whatever is on disk
Kill ==
    /\ pc # "idle" \/ lock # "free"
    /\ pc' = "idle"
    /\ lock' = "free"
    /\ active' = 0
    /\ call' = NoCall
    /\ panic' = NoPanic
    /\ DropLocals
    /\ UNCHANGED <<persist, past, pg>>

Next ==
    \/ Trigger
    \/ LoadSession
    \/ Claim
    \/ PrintStats
    \/ CheckLibrary
    \/ MarkProcessing
    \/ GetTracks
    \/ Cover
    \/ TrackStep
    \/ MarkSynchronized
    \/ EndAlbum
    \/ FetchFavourites
    \/ DiscoverCheck
    \/ DiscoverRequest
    \/ DiscoverEnd
    \/ Refresh
    \/ SaveSession
    \/ Finish
    \/ Kill

Spec == Init /\ [][Next]_vars

\* ------------------------------------- get_favorite_albums, page by page
\* the favourites of the remote: up to MaxRemote albums, each stream ready
\* or not
Remotes == UNION {[1..n -> BOOLEAN] : n \in 0..MaxRemote}

PageSizes == 1..MaxPage \cup {FAVOURITE_ITEMS_PER_PAGE}

\* let mut albums = vec![]; let pagination = Pagination::init(..); the
\* request number failat fails (0: none does)
PagesInit ==
    /\ ledger = {}
    /\ disk = {}
    /\ store = NONE
    /\ lock = "free"
    /\ active = 0
    /\ pc = "idle"
    /\ session = NONE
    /\ cur = NONE
    /\ tracks = 0
    /\ todo = 0
    /\ fav = NONE
    /\ hist = [i \in AlbumIds |-> NoHist]
    /\ snap = [i \in AlbumIds |-> NONE]
    /\ skipped = {}
    /\ downloads = {}
    /\ drained = FALSE
    /\ discovered = {}
    /\ call = NoCall
    /\ stats = NONE
    /\ run = NoRun
    /\ panic = NoPanic
    /\ \E remote \in Remotes, limit \in PageSizes, failat \in 0..MaxRemote + 1 :
         pg = [remote |-> remote, page |-> Pagination_init(limit), fetches |-> 0,
               albums |-> <<>>, ret |-> "run", failat |-> failat]

\* if v.is_err() { return Err(BackendError::RequestError) }
PageError ==
    /\ pg.ret = "run"
    /\ pg.fetches + 1 = pg.failat
    /\ pg' = [pg EXCEPT !.fetches = @ + 1, !.albums = <<>>, !.ret = "err"]
    /\ UNCHANGED core

\* if items.is_empty() { break; } and Ok(albums) after the loop
PageEmpty ==
    /\ pg.ret = "run"
    /\ pg.fetches + 1 # pg.failat
    /\ session_get_favorite_albums(pg.remote, pg.page.limit, pg.page.offset) = <<>>
    /\ pg' = [pg EXCEPT !.fetches = @ + 1, !.ret = "ok"]
    /\ UNCHANGED core

\* a page with items: they are pushed and the loop takes the next page
PageItems ==
    /\ pg.ret = "run"
    /\ pg.fetches + 1 # pg.failat
    /\ LET items == session_get_favorite_albums(pg.remote, pg.page.limit, pg.page.offset)
       IN /\ items # <<>>
          /\ pg' = [pg EXCEPT !.fetches = @ + 1,
                              !.albums = push_albums(@, items, pg.remote),
                              !.page = Pagination_next(@)]
    /\ UNCHANGED core

PagesNext ==
    \/ PageError
    \/ PageEmpty
    \/ PageItems

SpecPages == PagesInit /\ [][PagesNext]_vars

\* ------------------------------------------------------------------ claims
RequestedRows(l) == {r \in l : r.state = "Requested"}

\* the statements of the body of the while loop, where `album` is bound
DrainBody == {"stats1", "check_lib", "mark_proc", "tracks", "cover", "track", "mark_sync"}

\* C1: across invocations, kills and restarts included, each album id is
\* claimed (returned by the claim and handed to the tracklist fetch) at most
\* once.
C1_ClaimedAtMostOnce ==
    \A i \in AlbumIds : hist[i].claims <= 1 /\ hist[i].fetches <= 1

\* an album claimed by an invocation that died before the tracklist fetch,
\* and a later invocation whose claim found nothing left to claim
C1_Witness ==
    /\ pc = "stats2"
    /\ call.op = "claim" /\ call.ret = "none" /\ ~call.fault
    /\ \E i \in AlbumIds :
         /\ hist[i].claims = 1
         /\ hist[i].fetches = 0
         /\ i \notin skipped
         /\ StatesOf(ledger, i) = {"Processing"}

\* C2: in every step of every run a record's state only moves forward in
\* the order Requested, Processing, Synchronized.
C2_StateMonotonic ==
    [][\A r \in ledger : \A q \in ledger' :
          q.id = r.id => Rank(q.state) >= Rank(r.state)]_vars

\* a Synchronized record about to be marked again by a later track
C2_Witness ==
    /\ pc = "mark_sync"
    /\ StatesOf(ledger, cur.id) = {"Synchronized"}

\* C3: the ledger holds at most one record per album id, and the set of ids
\* in it only grows.
C3_OneRecordPerIdNeverRemoved ==
    [][/\ \A i \in AlbumIds : Cardinality(RowsOf(ledger', i)) <= 1
       /\ Ids(ledger) \subseteq Ids(ledger')]_vars

\* a discover phase that ran to its end over a ledger holding every album
C3_Witness ==
    /\ pc = "stats3"
    /\ discovered = {}
    /\ Ids(ledger) = AlbumIds
    /\ \E r \in ledger : r.state = "Synchronized"

\* C4: request_favourite_album for an id that has a record leaves one
\* record for the id, in the state it had.
C4_SecondRequestChangesNothing ==
    [][(pc = "request" /\ HasRecord(ledger, fav.id)) =>
          /\ Cardinality(RowsOf(ledger', fav.id)) = 1
          /\ StatesOf(ledger', fav.id) = StatesOf(ledger, fav.id)]_vars

\* the INSERT was tried for the id of a Synchronized record and refused
C4_Witness ==
    /\ call.op = "request"
    /\ call.ret = "pk"
    /\ StatesOf(ledger, call.id) = {"Synchronized"}

\* C5: no step of a discover phase creates a Requested record for an id
\* whose record is Synchronized, or moves that record out of Synchronized.
C5_SynchronizedNeverRequestedAgain ==
    [][\A i \in AlbumIds :
          (pc \in {"discover", "request"} /\ "Synchronized" \in StatesOf(ledger, i))
             => StatesOf(ledger', i) = {"Synchronized"}]_vars

\* the favourites held an album whose record is Synchronized; it was skipped
C5_Witness ==
    /\ pc = "discover"
    /\ call.op = "is_album_exists"
    /\ call.ret = "true"
    /\ StatesOf(ledger, call.id) = {"Synchronized"}

\* C6: an album is returned by the claim no more often than a Requested
\* record was inserted for it, and the claim returns None when no record is
\* Requested.
C6_NoRepeatedClaim ==
    /\ \A i \in AlbumIds : hist[i].claims <= hist[i].inserts
    /\ (call.op = "claim" /\ call.requested = 0) => call.ret = "none"

\* a claim that found no Requested record after an album had been claimed
C6_Witness ==
    /\ call.op = "claim"
    /\ call.requested = 0
    /\ call.ret = "none"
    /\ ~call.fault
    /\ \E i \in AlbumIds : hist[i].claims = 1 /\ hist[i].inserts = 1

C8_SynchronizedAfterLastTrack ==
    [][(/\ pc \in {"track", "mark_sync"}
        /\ tracks = 1
        /\ pc' = "track"
        /\ tracks' = 0) => StatesOf(ledger', cur.id) = {"Synchronized"}]_vars

\* C9: an album the library reported as existing when it was claimed has no
\* tracklist, cover or track request made for it, and its record is
\* Processing from then on.
C9_MaterializedStaysProcessing ==
    \A i \in skipped :
       /\ StatesOf(ledger, i) = {"Processing"}
       /\ hist[i].fetches = 0
       /\ i \notin downloads

\* a later invocation starts with the skipped album's record in Processing
C9_Witness ==
    /\ pc = "start"
    /\ \E i \in skipped : StatesOf(ledger, i) = {"Processing"}

\* C10: within an invocation request_favourite_album is called only after
\* the claim has returned None, and an album the invocation inserted is
\* Requested for the rest of the invocation.
C10_DrainBeforeDiscover ==
    /\ (pc = "request" \/ discovered # {}) => drained
    /\ \A i \in discovered : StatesOf(ledger, i) = {"Requested"}

\* an invocation ends after its discover phase inserted an album
C10_Witness ==
    /\ pc = "done"
    /\ discovered # {}

\* C11: an invocation whose favourites fetch failed does not panic in the
\* recovery; it makes one favourites fetch and one refresh, and once the
\* recovery is over the session store holds the refreshed session.
C11_RefreshOnceNoCrash ==
    /\ panic.at \notin {"refresh", "save"}
    /\ pc \in {"refresh", "save"} => run.fetches = 1
    /\ (pc = "done" /\ run.refreshes > 0) =>
          /\ run.refreshes = 1
          /\ run.fetches = 1
          /\ session = "refreshed"
          /\ store = session

\* C12: a download_track that returns Err leaves the invocation running at
\* the head of the track loop with the next track of the same album, and
\* leaves the ledger, the album's record included, as it was.
C12_TrackFailureGoesOn ==
    [][(/\ pc = "track"
        /\ call'.op = "download_track"
        /\ call'.ret = "err") =>
          /\ lock' = "held"
          /\ pc' = "track"
          /\ cur' = cur
          /\ tracks' = tracks - 1
          /\ ledger' = ledger]_vars

\* the drain is over and the invocation is at the favourites fetch; of the
\* album it claimed last, track downloads failed and succeeded
C12_Witness ==
    /\ pc = "fetch"
    /\ run.fail > 0
    /\ run.ok > 0
    /\ StatesOf(ledger, run.id) = {"Synchronized"}

\* C13: a tracklist fetch or a cover download that fails for a claimed
\* album does not end the invocation.
C13_FetchFailureSkipsAlbum ==
    panic.at \notin {"tracks", "cover"}

\* C14: a Registry call that met a storage error has ended the invocation
\* with that error.
C14_StorageErrorsAbort ==
    call.fault => (pc = "idle" /\ panic.why = "io")

\* C15: a record that was Processing when an invocation started is
\* Processing throughout the invocation, and is not the album the
\* invocation drains.
C15_ProcessingStaysProcessing ==
    \A i \in run.stale :
       /\ StatesOf(ledger, i) = {"Processing"}
       /\ pc \in DrainBody => cur.id # i

\* an album was claimed by an invocation that ended before the tracklist
\* fetch; a later invocation has gone through its drain and its discover
\* phase
C15_Witness ==
    /\ pc = "stats3"
    /\ \E i \in run.stale :
         /\ i \notin skipped
         /\ hist[i].fetches = 0

\* C16: every record has one of the three states, and when an invocation
\* has run to completion the only Requested records are those of the albums
\* it inserted itself: none that was Requested when it started is left.
C16_RequestedClaimedByNextDrain ==
    /\ \A r \in ledger : r.state \in {"Requested", "Processing", "Synchronized"}
    /\ \A i \in AlbumIds : Cardinality(RowsOf(ledger, i)) <= 1
    /\ pc = "done" => \A r \in RequestedRows(ledger) : r.id \in discovered

\* C17: at most one sync_favourites call is in progress, it is in
\* progress exactly while the Mutex is held, and none is when the
\* statement counter is idle.
C17_OneInvocationAtATime ==
    /\ active <= 1
    /\ active = 1 <=> lock = "held"
    /\ active = 1 <=> pc # "idle"

\* an invocation is in its track loop: try_lock fails for a trigger that
\* fires now, whose Err branch only logs
C17_Witness ==
    /\ pc = "track"
    /\ tracks > 0
    /\ active = 1
    /\ ~try_lock(lock)

\* C18: the ledger holds one album, inserted once from the favourites of an
\* earlier invocation and not in the library; this invocation claimed it
\* and both of its two track downloads returned Ok.  The statistics
\* printed after the drain are requested 0, processing 0, synchronized 1,
\* total 1.
C18_EndToEndStats ==
    (/\ pc = "fetch"
     /\ call.op = "get_stats"
     /\ ~call.fault
     /\ Cardinality(ledger) = 1
     /\ run.id \in Ids(ledger)
     /\ run.id \notin skipped
     /\ run.ok = 2
     /\ run.fail = 0) =>
        stats = [album_requested |-> 0, album_processing |-> 0,
                 album_synchronized |-> 1, count_total |-> 1]

\* the scenario: nothing was Processing when the invocation started, the
\* album was inserted, claimed and fetched once
C18_Witness ==
    /\ pc = "fetch"
    /\ call.op = "get_stats"
    /\ ~call.fault
    /\ Cardinality(ledger) = 1
    /\ run.id \in Ids(ledger)
    /\ run.id \notin skipped
    /\ run.ok = 2
    /\ run.fail = 0
    /\ run.stale = {}
    /\ hist[run.id] = [inserts |-> 1, claims |-> 1, fetches |-> 1]
    /\ stats.album_synchronized = 1
    /\ stats.count_total = 1

\* C20: download_track returns Ok exactly when fewer than 4 requests fail
\* before one succeeds; when it returns Err it has made exactly 4 requests;
\* either way the invocation goes on.
C20_DownloadRetries ==
    call.op = "download_track" =>
       /\ call.ret \in {"ok", "err"}
       /\ call.ret = "ok" <=> call.k < 4
       /\ call.ret = "err" => call.attempts = 4
       /\ lock = "held"
       /\ pc \in {"track", "mark_sync"}

\* every request of a download_track failed: 4 requests, Err, and the
\* invocation is at the head of the track loop
C20_Witness ==
    /\ call.op = "download_track"
    /\ call.k >= 4
    /\ call.ret = "err"
    /\ call.attempts = 4
    /\ pc = "track"

\* C19: a get_favorite_albums that returns Ok for N favourites and page
\* size P has made ceil((N+1)/P) page fetches and returns the N albums in
\* the order of the remote.
C19_PageFetches ==
    LET N == Len(pg.remote)
        P == pg.page.limit
        ceil(a, b) == (a + b - 1) \div b
    IN pg.ret = "ok" =>
          /\ pg.fetches = ceil(N + 1, P)
          /\ pg.albums = [j \in 1..N |-> j]

\* C19, amended: a get_favorite_albums that returns Ok for N favourites and
\* page size P has made ceil(N/P) + 1 page fetches, the last one of an empty
\* page, and returns, in the order of the remote, the albums among the N
\* that are adSupportedStreamReady.
C19_PageFetchesUntilEmpty ==
    LET N == Len(pg.remote)
        P == pg.page.limit
        ceil(a, b) == (a + b - 1) \div b
    IN pg.ret = "ok" =>
          /\ pg.fetches = ceil(N, P) + 1
          /\ pg.albums = SelectSeq([j \in 1..N |-> j], LAMBDA j : pg.remote[j])

\* three favourites, two of them stream ready, in pages of two: a full
\* page, a short page and the empty page
C19_Witness ==
    /\ pg.ret = "ok"
    /\ Len(pg.remote) = 3
    /\ pg.page.limit = 2
    /\ pg.fetches = 3
    /\ Len(pg.albums) = 2

\* C21: every snapshot get_stats returns has count_total equal to the sum
\* of its three counts, and the step that takes it leaves the ledger as it
\* was.
C21_StatsSumIsTotal ==
    [][call'.op = "get_stats" =>
          /\ stats'.count_total = stats'.album_requested + stats'.album_processing
                                     + stats'.album_synchronized
          /\ ledger' = ledger]_vars

\* a snapshot of a ledger with a Requested and a Synchronized record, one
\* of whose counts met a storage error
C21_Witness ==
    /\ call.op = "get_stats"
    /\ call.fault
    /\ \E r \in ledger : r.state = "Requested"
    /\ \E r \in ledger : r.state = "Synchronized"
    /\ stats.count_total < Cardinality(ledger)

\* C22: while tracks of the claimed album are still to be attempted, its
\* record is not Synchronized.
C22_SynchronizedOnlyAfterAllTracks ==
    (pc = "track" /\ tracks > 0) => StatesOf(ledger, cur.id) # {"Synchronized"}

\* C23: a session obtained by the handshake of this invocation is in the
\* session store.
C23_HandshakeSessionStored ==
    session = "fresh" => store = "fresh"

\* C24: after a refresh that failed the session store holds no session.
C24_RefreshFailureClearsStore ==
    panic.at = "refresh" => store = NONE

\* C25: the claim does not panic on a Requested record whose stored
\* snapshot is no Album.
C25_DeserializationFailureIsAnError ==
    ~(panic.at = "claim" /\ panic.why = "parse")

\* C26: a remote call that failed on an expired authorization returns an
\* error that says so, is not tried again, and is followed by the session
\* refresh.
C26_AuthorizationExpiredDistinct ==
    call.cause = "unauthorized" =>
       /\ call.ret = "AuthorizationError"
       /\ call.attempts <= 1
       /\ pc = "refresh"

\* C27: a get_favorite_albums with a failed page fetch is followed by the
\* refresh with no album to iterate, and an invocation on the refresh path
\* has inserted no record.
C27_FailedPageInsertsNothing ==
    /\ (call.op = "get_favorite_albums" /\ call.cause # "") =>
          (pc = "refresh" /\ todo = 0)
    /\ (pc \in {"refresh", "save"} \/ (pc = "done" /\ run.refreshes > 0)) =>
          (discovered = {} /\ todo = 0)

\* the invocation is over its discover phase, whose favourites fetch
\* failed, with the records of earlier invocations in the ledger
C27_Witness ==
    /\ pc = "done"
    /\ run.refreshes = 1
    /\ run.fetches = 1
    /\ discovered = {}
    /\ ledger # {}

\* C28: when the drain of an invocation is over, before and at the
\* favourites fetch, no record is Requested: every record that was
\* Requested at its start has been claimed.
C28_DrainLeavesNoRequested ==
    pc \in {"stats2", "fetch"} => RequestedRows(ledger) = {}

\* C29, as the progress each invocation has to make for it: with every
\* remote call succeeding, a favourite that has no record gets one, and an
\* album whose track loop is over is Synchronized (a Processing record is
\* never claimed again, so it would never become Synchronized later).
C29_FavouritesBecomeSynchronized ==
    /\ ~(panic.at = "request" /\ panic.why = "notnull")
    /\ (pc = "track" /\ tracks = 0 /\ run.fail = 0) =>
          StatesOf(ledger, cur.id) = {"Synchronized"}

\* C30: when no invocation is running, try_lock succeeds for the next
\* trigger.
C30_TriggerRunsAfterInvocationEnded ==
    pc = "idle" => try_lock(lock)

====
